---- MODULE Spec2Model ----
(***************************************************************************)
(* tll-array: arrays whose length is a type-level ternary natural number. *)
(*                                                                         *)
(* A length is a sequence of ternary digits, least significant first       *)
(* (Two<Two<Term>> = <<2, 2>> = 8).  storage.rs turns a length into a tree  *)
(* of #[repr(C)] structs; array.rs wraps that tree as Array<L, T>, splits   *)
(* it with pointer casts, and consumes it through ArrayIter.               *)
(*                                                                         *)
(* Memory is measured in elements of T.  An element is named by the index  *)
(* (1-based) it had in the array that was first built; Junk stands for     *)
(* bytes that are not a copy of any element.                               *)
(***************************************************************************)
EXTENDS Integers, Sequences, FiniteSets, TLC

VARIABLES
    len0,     \* length of the array that was built (ghost)
    array,    \* the Array binding: [live, L, cells]
    held,     \* elements handed to the caller, oldest first: [by, elem]
    heldLive, \* the caller still holds (has not dropped) those elements
    iter,     \* the ArrayIter: [st, tag, L, block, pos, taken]
    iterSrc,  \* cells of the array that into_iter consumed (ghost)
    rets,     \* what each next() call returned, oldest first
    hint,     \* what size_hint() returned, if it was the last call on the iterator
    call,     \* the last split: [op, L, cells], the array it was given (ghost)
    drops,    \* drops[owner][e]: how often owner ran the destructor of e
    lay,      \* the Reify<L, T> resolution in progress: [st, n, esize, todo, node, nat, specialization]
    probe,    \* the last array[i] on the live array: [called, i, res, len, read]
    build     \* an array under construction: [st, by, L, src, n, writes, data]

vars == <<len0, array, held, heldLive, iter, iterSrc, rets, hint, call, drops, lay,
         probe, build>>

(***************************************************************************)
(* Bounds                                                                  *)
(***************************************************************************)
MaxLen == 9         \* longest array built
MaxEnd == 2         \* next() calls modelled after the first None
MaxTeardowns == 2   \* times Drop::drop is run on one ArrayIter
MaxLayoutLen == 63  \* longest length whose layout is resolved (U0 .. U63)
MaxOtherLen == 8    \* longest digit prefix around a type that is no digit
UsizeBits == 16     \* width of usize on the target the crate is built for

ElemSize == 4       \* size_of::<i32>(), the element type of the split tests
ElemSizes == {1, 2, 4, 8}   \* i8, i16, i32, i64 of the storage tests

Junk == 0
Owners == {"array", "iter", "caller"}

Max(a, b) == IF a >= b THEN a ELSE b
RoundUp(off, al) == ((off + al - 1) \div al) * al

(***************************************************************************)
(* Type-level ternary naturals (tll::ternary, used through L::reify(),     *)
(* Pred<L> and Triple<L>)                                                  *)
(***************************************************************************)
RECURSIVE Ternary(_)
Ternary(n) == IF n = 0 THEN <<>> ELSE <<n % 3>> \o Ternary(n \div 3)

RECURSIVE reify(_)
reify(L) == IF L = <<>> THEN 0 ELSE Head(L) + 3 * reify(Tail(L))

\* a Triple<L> that is L itself
TripleSame(L) == L

Triple(L) == IF L = <<>> THEN <<>> ELSE <<0>> \o L

RECURSIVE Pred(_)
Pred(L) ==
    CASE Head(L) = 0 -> <<2>> \o Pred(Tail(L))
      [] Head(L) = 1 -> Triple(Tail(L))
      [] Head(L) = 2 -> <<1>> \o Tail(L)

(***************************************************************************)
(* storage.rs: the struct tree.  A node is summarised by the number of T   *)
(* it holds and by its #[repr(C)] size and alignment in bytes.             *)
(***************************************************************************)
NextCopies == 3

\* #[repr(C)]: fields in order, each at the next multiple of its alignment;
\* the struct is as aligned as its most aligned field and its size is a
\* multiple of that.  fields is a sequence of [count, size, align].
RECURSIVE EndOffset(_, _)
EndOffset(fields, off) ==
    IF fields = <<>> THEN off
    ELSE EndOffset(Tail(fields), RoundUp(off, Head(fields).align) + Head(fields).size)

RECURSIVE SumCount(_)
SumCount(fields) ==
    IF fields = <<>> THEN 0 ELSE Head(fields).count + SumCount(Tail(fields))

RECURSIVE MaxAlign(_)
MaxAlign(fields) ==
    IF fields = <<>> THEN 1 ELSE Max(Head(fields).align, MaxAlign(Tail(fields)))

ReprC(fields) ==
    [count |-> SumCount(fields),
     size  |-> RoundUp(EndOffset(fields, 0), MaxAlign(fields)),
     align |-> MaxAlign(fields)]

PhantomData == [count |-> 0, size |-> 0, align |-> 1]
ElemField(s) == [count |-> 1, size |-> s, align |-> s]
\* a node that keeps two copies of its sub-layout instead of three
NextFieldTwo(sub) ==
    [count |-> 2 * sub.count, size |-> 2 * sub.size, align |-> sub.align]

\* [N; 3]
NextField(sub) ==
    [count |-> NextCopies * sub.count, size |-> NextCopies * sub.size, align |-> sub.align]

TermNode == ReprC(<<PhantomData>>)

UsizeMax == 2 ^ UsizeBits - 1
IsizeMax == 2 ^ (UsizeBits - 1) - 1
U64Size == 8

\* a fallback that takes no room
KillItWithFireEmpty(n) == [count |-> 0, size |-> 0, align |-> U64Size]

\* [u64; usize::MAX]
KillItWithFire(n) == [count |-> n, size |-> U64Size * n, align |-> U64Size]

\* "an array which is much too large for any architecture to handle,
\* forcing Rust to halt compilation"
TooLarge(layout) == layout.size > IsizeMax

\* a type in the place of a digit that is none of Term, Zero, One, Two
Other == 3
ZeroNode(s, sub) == ReprC(<<PhantomData, NextField(sub)>>)
OneNode(s, sub) == ReprC(<<ElemField(s), NextField(sub)>>)
TwoNode(s, sub) == ReprC(<<ElemField(s), ElemField(s), NextField(sub)>>)

RECURSIVE Reify(_, _)
Reify(L, s) ==
    IF L = <<>> THEN TermNode
    ELSE CASE Head(L) = 0 -> ZeroNode(s, Reify(Tail(L), s))
           [] Head(L) = 1 -> OneNode(s, Reify(Tail(L), s))
           [] Head(L) = 2 -> TwoNode(s, Reify(Tail(L), s))

\* size_of::<Array<L, T>>() in elements of T
ArrayElems(L) == Reify(L, ElemSize).size \div ElemSize

(***************************************************************************)
(* Raw memory seen from `&array as *const Self`.  Address a (in elements)  *)
(* below the array's size is the array's own cell; a read past the end is  *)
(* undefined behaviour and yields g[a]: unrelated bytes (Junk) everywhere, *)
(* except that one address may hold a copy of the array's first element    *)
(* (the local `head`, read just before, lives in the same frame).          *)
(***************************************************************************)
Addrs(off, n) == off .. (off + n - 1)
OutOfBounds(cells, addrs) == {a \in addrs : a >= Len(cells)}
Garbage(cells) == {Junk} \cup (IF cells = <<>> THEN {} ELSE {cells[1]})
Fills(cells, oob) ==
    {[a \in oob |-> Junk]}
        \cup {[a \in oob |-> IF a = b THEN x ELSE Junk] : b \in oob, x \in Garbage(cells)}
Mem(cells, g, a) == IF a < Len(cells) THEN cells[a + 1] ELSE g[a]

\* ptr::read(p as *const T) at element offset off
ReadT(cells, g, off) == Mem(cells, g, off)
\* ptr::read(p as *const Array<P, T>) at element offset off
ReadArray(cells, g, off, P) == [i \in 1 .. ArrayElems(P) |-> Mem(cells, g, off + i - 1)]

\* a slice view one element longer than the array
ArrayLenPlusOne(L) == reify(L) + 1

\* Deref: slice::from_raw_parts(self as *const T, L::reify()).len()
ArrayLen(L) == reify(L)

None == <<"None">>
Some(e) == <<"Some", e>>

NoArray == [live |-> FALSE, L |-> <<>>, cells |-> <<>>]
NoIter == [st |-> "none", tag |-> "Dead", L |-> <<>>, block |-> <<>>, pos |-> 0,
           taken |-> <<>>]
NoHint == [called |-> FALSE, lo |-> 0, hi |-> <<"None">>]
NoCall == [op |-> "none", L |-> <<>>, cells |-> <<>>]
NoDrops == [o \in Owners |-> [e \in 0 .. MaxLen |-> 0]]
NoProbe == [called |-> FALSE, i |-> 0, res |-> <<"None">>, len |-> 0, read |-> {}]
NoBuild == [st |-> "idle", by |-> "none", L |-> <<>>, src |-> <<>>, n |-> 0, writes |-> <<>>,
            data |-> <<>>]
LayIdle == [st |-> "idle", n |-> 0, esize |-> 1, todo |-> <<>>, node |-> TermNode,
            nat |-> TRUE, specialization |-> FALSE]

\* the destructor of every element of es has run once more
RECURSIVE Destructed(_, _)
Destructed(d, es) ==
    IF es = <<>> THEN d
    ELSE Destructed([d EXCEPT ![Head(es)] = @ + 1], Tail(es))

(***************************************************************************)
(* ArraySplit                                                              *)
(***************************************************************************)
\* a head read one element too far
HeadAddrSecond(L) == 1

\* (&array as *const Self as *const T): the first element
HeadAddr(L) == 0
\* (&array as *const Self as *const Array<P, T>).offset(1): one whole
\* Array<P, T> past the start
TailAddr(P) == 1 * ArrayElems(P)
\* &array as *const Self as *const Array<P, T>
InitAddr(P) == 0
\* a last read at offset L::reify(), without the - 1
LastAddrPastEnd(L) == reify(L)

\* (&array as *const Self as *const T).offset(L::reify() as isize - 1)
LastAddr(L) == reify(L) - 1

\* split_first with result length P: head and tail are read, array is forgotten
\* the addresses split_first reads: *head, then *tail as an Array<P, T>
SplitFirstReads(L, P) == Addrs(HeadAddr(L), 1) \cup Addrs(TailAddr(P), ArrayElems(P))
\* the addresses split_last reads: *init as an Array<P, T>, then *last
SplitLastReads(L, P) == Addrs(InitAddr(P), ArrayElems(P)) \cup Addrs(LastAddr(L), 1)

SplitFirstTo(P) ==
    LET cells == array.cells
        reads == SplitFirstReads(array.L, P)
    IN  \E g \in Fills(cells, OutOfBounds(cells, reads)) :
            LET head == ReadT(cells, g, HeadAddr(array.L))
                tail == ReadArray(cells, g, TailAddr(P), P)
            IN  /\ held' = Append(held, [by |-> "split_first", elem |-> head])
                /\ array' = [live |-> TRUE, L |-> P, cells |-> tail]
                /\ call' = [op |-> "split_first", L |-> array.L, cells |-> cells]
                /\ probe' = NoProbe
                /\ UNCHANGED <<len0, heldLive, iter, iterSrc, rets, hint, drops, lay, build>>

\* split_last with result length P: init and last are read, array is forgotten
SplitLastTo(P) ==
    LET cells == array.cells
        reads == SplitLastReads(array.L, P)
    IN  \E g \in Fills(cells, OutOfBounds(cells, reads)) :
            LET init == ReadArray(cells, g, InitAddr(P), P)
                last == ReadT(cells, g, LastAddr(array.L))
            IN  /\ held' = Append(held, [by |-> "split_last", elem |-> last])
                /\ array' = [live |-> TRUE, L |-> P, cells |-> init]
                /\ call' = [op |-> "split_last", L |-> array.L, cells |-> cells]
                /\ probe' = NoProbe
                /\ UNCHANGED <<len0, heldLive, iter, iterSrc, rets, hint, drops, lay, build>>

\* the array is a live Array<D<L>, T> with leading digit d
Shape(d) == array.live /\ array.L # <<>> /\ Head(array.L) = d

SplitFirstZero == Shape(0) /\ SplitFirstTo(<<2>> \o Pred(Tail(array.L)))
SplitFirstOne == Shape(1) /\ SplitFirstTo(Triple(Tail(array.L)))
SplitFirstTwo == Shape(2) /\ SplitFirstTo(<<1>> \o Tail(array.L))

SplitLastZero == Shape(0) /\ SplitLastTo(<<2>> \o Pred(Tail(array.L)))
SplitLastOne == Shape(1) /\ SplitLastTo(Triple(Tail(array.L)))
SplitLastTwo == Shape(2) /\ SplitLastTo(<<1>> \o Tail(array.L))

(***************************************************************************)
(* Deref: the array as the slice of L::reify() elements at its own address *)
(***************************************************************************)
Panic == <<"Panic">>

\* array[i]: the slice's bound check, then the element at offset i
Index ==
    /\ array.live
    /\ \E i \in 0 .. MaxLen + 1 :
          LET len == ArrayLen(array.L)
          IN  IF i < len
              THEN \E g \in Fills(array.cells, OutOfBounds(array.cells, {i})) :
                      probe' = [called |-> TRUE, i |-> i, len |-> len, read |-> {i},
                                res |-> Some(Mem(array.cells, g, i))]
              ELSE probe' = [called |-> TRUE, i |-> i, len |-> len, read |-> {},
                             res |-> Panic]
    /\ UNCHANGED <<len0, array, held, heldLive, iter, iterSrc, rets, hint, call, drops,
                   lay, build>>

\* an Array goes out of scope: the drop glue of Reify<L, T> drops every T
\* of the struct tree
GlueDrops(cells) == cells

DropArray ==
    /\ array.live
    /\ drops' = [drops EXCEPT !["array"] = Destructed(@, GlueDrops(array.cells))]
    /\ array' = NoArray
    /\ probe' = NoProbe
    /\ UNCHANGED <<len0, held, heldLive, iter, iterSrc, rets, hint, call, lay, build>>

(***************************************************************************)
(* ArrayIter                                                               *)
(***************************************************************************)
(***************************************************************************)
(* guillotine.rs.  The ArrayIter keeps its Guillotine<Array<L, T>> as the   *)
(* tag (iter.tag) and the bytes of the array (iter.block), which stay in    *)
(* place when the tag says Dead.                                           *)
(***************************************************************************)
Alive(obj) == <<"Alive", obj>>
Dead == <<"Dead">>
GuillotineOf(tag, obj) == IF tag = "Alive" THEN Alive(obj) ELSE Dead

\* a take that hands the value out and leaves the tag as it was
TakeKeeps(tag) == [ret |-> tag, self |-> tag]

\* take: mem::replace(self, Dead)
Take(tag) == [ret |-> tag, self |-> "Dead"]
\* an as_ref that takes the value out
AsRefTakes(tag) == [ret |-> tag, self |-> "Dead"]

\* as_ref: match *self { Alive(ref obj) => Alive(obj), Dead => Dead }
AsRef(tag) == [ret |-> tag, self |-> tag]

\* an iterator that starts past the first element
NewIterSkips(L, cells) ==
    [st |-> "live", tag |-> "Alive", L |-> L, block |-> cells, pos |-> 1,
     taken |-> <<>>]

\* ArrayIter { data: Alive(self), pos: 0 }
NewIter(L, cells) ==
    [st |-> "live", tag |-> "Alive", L |-> L, block |-> cells, pos |-> 0,
     taken |-> <<>>]

IntoIter ==
    /\ array.live
    /\ iter' = NewIter(array.L, array.cells)
    /\ iterSrc' = array.cells
    /\ array' = NoArray
    /\ probe' = NoProbe
    /\ UNCHANGED <<len0, held, heldLive, rets, hint, call, drops, lay, build>>

Ended == Cardinality({i \in 1 .. Len(rets) : rets[i] = None})

\* a bound check that stops one element early
HasNextShort(pos, len) == pos + 1 < len

\* self.pos < data.len()
HasNext(pos, len) == pos < len
\* &data[self.pos]
NextIndex(pos) == pos + 1
\* a cursor that moves two elements at a time
AdvanceTwo(pos) == pos + 2

\* self.pos += 1
Advance(pos) == pos + 1

IterNext ==
    /\ iter.st = "live"
    /\ AsRef(iter.tag).ret = "Alive"
    /\ IF HasNext(iter.pos, ArrayLen(iter.L))
       THEN LET next == iter.block[NextIndex(iter.pos)]
            IN  /\ iter' = [iter EXCEPT !.pos = Advance(@), !.tag = AsRef(iter.tag).self]
                /\ rets' = Append(rets, Some(next))
                /\ held' = Append(held, [by |-> "next", elem |-> next])
       ELSE /\ Ended < MaxEnd
            /\ rets' = Append(rets, None)
            /\ iter' = [iter EXCEPT !.tag = AsRef(iter.tag).self]
            /\ UNCHANGED held
    /\ hint' = NoHint
    /\ UNCHANGED <<len0, array, heldLive, iterSrc, call, drops, lay, probe, build>>

\* (L::reify(), Some(L::reify()))
SizeHintOf(L, pos) == [lo |-> reify(L), hi |-> Some(reify(L))]

SizeHint ==
    /\ iter.st = "live"
    /\ hint' = [called |-> TRUE, lo |-> SizeHintOf(iter.L, iter.pos).lo,
                hi |-> SizeHintOf(iter.L, iter.pos).hi]
    /\ UNCHANGED <<len0, array, held, heldLive, iter, iterSrc, rets, call, drops, lay, probe, build>>

\* for i in self.pos..data.len() { ptr::drop_in_place(&mut data[i]) }
LoopDrops(block, pos, len) == SubSeq(block, pos + 1, len)

\* Drop for ArrayIter: the block is taken out of the Guillotine into the
\* local `data`, the loop drops what was not yielded, and then `data`
\* itself goes out of scope
TeardownDrops(block, pos, len) == LoopDrops(block, pos, len) \o GlueDrops(block)

\* Drop::drop(&mut self).  The language runs it once; unsafe code of the
\* caller (ptr::drop_in_place, a bitwise copy of the iterator) can run it
\* again.  unwrap_unchecked() of a Dead Guillotine is unreachable(): undefined
\* behaviour, after which the bytes of the block are treated as an Array
\* and torn down once more, or nothing is destructed.
DropIter ==
    /\ iter.st \in {"live", "dropped"}
    /\ Len(iter.taken) < MaxTeardowns
    /\ LET t == Take(iter.tag)
           torn == [drops EXCEPT !["iter"] =
                      Destructed(@, TeardownDrops(iter.block, iter.pos, ArrayLen(iter.L)))]
       IN  IF t.ret = "Alive"
           THEN /\ drops' = torn
                /\ iter' = [iter EXCEPT !.st = "dropped", !.tag = t.self,
                               !.taken = Append(@, GuillotineOf(t.ret, iter.block))]
           ELSE /\ drops' \in {drops, torn}
                /\ iter' = [iter EXCEPT !.st = "undefined", !.tag = t.self,
                               !.taken = Append(@, GuillotineOf(t.ret, iter.block))]
    /\ hint' = NoHint
    /\ UNCHANGED <<len0, array, held, heldLive, iterSrc, rets, call, lay, probe, build>>

(***************************************************************************)
(* The caller                                                              *)
(***************************************************************************)
HeldElems == [i \in 1 .. Len(held) |-> held[i].elem]

\* the caller's scope ends: every element it was handed is dropped
DropHeld ==
    /\ heldLive
    /\ ~array.live /\ iter.st # "live"
    /\ drops' = [drops EXCEPT !["caller"] = Destructed(@, HeldElems)]
    /\ heldLive' = FALSE
    /\ UNCHANGED <<len0, array, held, iter, iterSrc, rets, hint, call, lay, probe, build>>

\* array![x0, ..] has run: element i sits at index i
Init ==
    /\ len0 \in 0 .. MaxLen
    /\ array = [live |-> TRUE, L |-> Ternary(len0), cells |-> [i \in 1 .. len0 |-> i]]
    /\ held = <<>>
    /\ heldLive = TRUE
    /\ iter = NoIter
    /\ iterSrc = <<>>
    /\ rets = <<>>
    /\ hint = NoHint
    /\ call = NoCall
    /\ drops = NoDrops
    /\ lay = LayIdle
    /\ probe = NoProbe
    /\ build = NoBuild

Next ==
    \/ SplitFirstZero \/ SplitFirstOne \/ SplitFirstTwo
    \/ SplitLastZero \/ SplitLastOne \/ SplitLastTwo
    \/ DropArray
    \/ IntoIter \/ IterNext \/ SizeHint \/ DropIter
    \/ DropHeld

Spec == Init /\ [][Next]_vars

\* the slice view of every array that construction and split_last produce
ViewNext ==
    \/ SplitLastZero \/ SplitLastOne \/ SplitLastTwo
    \/ Index

ViewSpec == Init /\ [][ViewNext]_vars

(***************************************************************************)
(* Reify<L, T>, one rule of the type operator per step, innermost          *)
(* (most significant) digit first                                          *)
(***************************************************************************)
LayoutInit ==
    /\ \E s \in ElemSizes, f \in BOOLEAN :
          \/ \E n \in 0 .. MaxLayoutLen :
                lay = [st |-> "start", n |-> n, esize |-> s, todo |-> Ternary(n),
                       node |-> TermNode, nat |-> TRUE, specialization |-> f]
          \/ \E n \in 0 .. MaxOtherLen :
                lay = [st |-> "start", n |-> n, esize |-> s,
                       todo |-> Ternary(n) \o <<Other>>,
                       node |-> TermNode, nat |-> FALSE, specialization |-> f]
    /\ len0 = 0
    /\ array = NoArray
    /\ held = <<>>
    /\ heldLive = TRUE
    /\ iter = NoIter
    /\ iterSrc = <<>>
    /\ rets = <<>>
    /\ hint = NoHint
    /\ call = NoCall
    /\ drops = NoDrops
    /\ probe = NoProbe
    /\ build = NoBuild

LayoutFrame ==
    UNCHANGED <<len0, array, held, heldLive, iter, iterSrc, rets, hint, call, drops,
                probe, build>>

\* the digit the next rule applies to
Digit == lay.todo[Len(lay.todo)]
Rest == SubSeq(lay.todo, 1, Len(lay.todo) - 1)

ReifyTerm ==
    /\ lay.st = "start"
    /\ lay' = [lay EXCEPT !.st = "digits", !.node = TermNode]
    /\ LayoutFrame

ReifyZero ==
    /\ lay.st = "digits" /\ lay.todo # <<>> /\ Digit = 0
    /\ lay' = [lay EXCEPT !.todo = Rest, !.node = ZeroNode(lay.esize, lay.node)]
    /\ LayoutFrame

ReifyOne ==
    /\ lay.st = "digits" /\ lay.todo # <<>> /\ Digit = 1
    /\ lay' = [lay EXCEPT !.todo = Rest, !.node = OneNode(lay.esize, lay.node)]
    /\ LayoutFrame

ReifyTwo ==
    /\ lay.st = "digits" /\ lay.todo # <<>> /\ Digit = 2
    /\ lay' = [lay EXCEPT !.todo = Rest, !.node = TwoNode(lay.esize, lay.node)]
    /\ LayoutFrame

\* #[cfg(feature = "specialization")] {N, T} => KillItWithFire
ReifyFallback ==
    /\ lay.st = "digits" /\ lay.todo # <<>> /\ Digit \notin {0, 1, 2}
    /\ lay.specialization
    /\ LET k == KillItWithFire(UsizeMax)
       IN  lay' = [lay EXCEPT !.todo = Rest, !.node = k,
                              !.st = IF TooLarge(k) THEN "rejected" ELSE "digits"]
    /\ LayoutFrame

\* without the feature no rule of Arrayify matches: the bound
\* L: Arrayify<T> of Array<L, T> is not met and the build stops
ReifyNoRule ==
    /\ lay.st = "digits" /\ lay.todo # <<>> /\ Digit \notin {0, 1, 2}
    /\ ~lay.specialization
    /\ lay' = [lay EXCEPT !.st = "rejected"]
    /\ LayoutFrame

LayoutNext ==
    \/ ReifyTerm \/ ReifyZero \/ ReifyOne \/ ReifyTwo
    \/ ReifyFallback \/ ReifyNoRule

LayoutSpec == LayoutInit /\ [][LayoutNext]_vars

Resolved == lay.st = "digits" /\ lay.todo = <<>>

(***************************************************************************)
(* Properties                                                              *)
(***************************************************************************)
N0 == ArrayLen(call.L)              \* length of the array the last split was given
AfterSplit(op) == array.live /\ call.op = op
LastHeld == held[Len(held)].elem    \* the element the last call handed out
IterLen == ArrayLen(iter.L)
Range(f) == {f[i] : i \in DOMAIN f}
TotalDrops(e) == drops["array"][e] + drops["iter"][e] + drops["caller"][e]

\* C1: after split_first on an array of length N >= 1 holding
\* [v0, .., v(N-1)], the returned array holds exactly [v1, .., v(N-1)]:
\* its index i is the source's index i+1.
C1_SplitFirstTail ==
    AfterSplit("split_first") =>
        /\ Len(array.cells) = N0 - 1
        /\ \A i \in 1 .. N0 - 1 : array.cells[i] = call.cells[i + 1]

\* C2: split_first on an array of length N >= 1, whatever its leading digit,
\* returns as head the element stored at index 0, and an array whose len()
\* is N - 1.
C2_SplitFirstHeadLen ==
    AfterSplit("split_first") =>
        /\ N0 >= 1
        /\ LastHeld = call.cells[1]
        /\ ArrayLen(array.L) = N0 - 1

C2_Witness ==
    /\ AfterSplit("split_first")
    /\ call.L = <<0, 0, 1>>
    /\ LastHeld = 1
    /\ ArrayLen(array.L) = 8

\* C3: split_last on an array holding [v0, .., v(N-1)] returns v(N-1) and an
\* array of len() N - 1 holding exactly [v0, .., v(N-2)] in order.
C3_SplitLast ==
    AfterSplit("split_last") =>
        /\ N0 >= 1
        /\ LastHeld = call.cells[N0]
        /\ ArrayLen(array.L) = N0 - 1
        /\ array.cells = SubSeq(call.cells, 1, N0 - 1)

C3_Witness ==
    /\ AfterSplit("split_last")
    /\ call.L = <<0, 0, 1>>
    /\ call.cells = <<1, 2, 3, 4, 5, 6, 7, 8, 9>>
    /\ LastHeld = 9
    /\ array.cells = <<1, 2, 3, 4, 5, 6, 7, 8>>

\* C4: split_first called N times in succession on an array of length N,
\* each time on the array the call before returned, yields as heads the
\* original sequence in order, and the array left over has length 0.
OnlySplitFirst == \A i \in 1 .. Len(held) : held[i].by = "split_first"

C4_RoundTrip ==
    (array.live /\ OnlySplitFirst /\ Len(held) = len0) =>
        /\ HeldElems = [i \in 1 .. len0 |-> i]
        /\ ArrayLen(array.L) = 0

\* the iterator was made from an array of distinct elements, none of them
\* a stray copy and none already handed to the caller by a split
Genuine ==
    /\ Junk \notin Range(iterSrc)
    /\ Cardinality(Range(iterSrc)) = Len(iterSrc)
    /\ \A i \in 1 .. Len(held) : held[i].by = "next" \/ held[i].elem \notin Range(iterSrc)

\* C5: an iterator over an array of length N dropped after yielding k
\* elements has destructed every element of positions [k, N) exactly once;
\* once the caller has dropped what it was handed, each of the N elements
\* has been destructed exactly once in total.
C5_PartialDrop ==
    (iter.st = "dropped" /\ Genuine) =>
        /\ \A i \in iter.pos + 1 .. IterLen : drops["iter"][iterSrc[i]] = 1
        /\ ~heldLive => \A i \in 1 .. IterLen : TotalDrops(iterSrc[i]) = 1

\* C6: the iterator's teardown destructs no element of positions [0, pos),
\* which it has yielded; after exhaustion it destructs nothing.
C6_YieldedUntouched ==
    (iter.st = "dropped" /\ Genuine) =>
        /\ \A i \in 1 .. iter.pos : drops["iter"][iterSrc[i]] = 0
        /\ iter.pos = IterLen => \A e \in 0 .. MaxLen : drops["iter"][e] = 0

\* C7: next() on an iterator over [v0, .., v(N-1)] returns v0, .., v(N-1) in
\* index order, N elements with none skipped or repeated, and every call
\* after those returns None.
C7_Exhaustion ==
    \A i \in 1 .. Len(rets) :
        rets[i] = IF i <= Len(iterSrc) THEN Some(iterSrc[i]) ELSE None

C7_Witness ==
    /\ iterSrc = <<1, 2, 3, 4, 5, 6, 7, 8, 9>>
    /\ Len(rets) = 9 + MaxEnd
    /\ rets[9] = Some(9)
    /\ rets[10] = None
    /\ rets[Len(rets)] = None

\* C8: whatever the number of next() calls so far, size_hint reports lower
\* and upper bound both equal to length - pos.
C8_SizeHintExact ==
    (iter.st = "live" /\ hint.called) =>
        /\ hint.lo = IterLen - iter.pos
        /\ hint.hi = Some(IterLen - iter.pos)

\* C9: for every length N in 0 .. 63 and element size 1, 2, 4 or 8 bytes, the
\* layout resolved from N's ternary digits holds exactly N elements and
\* occupies exactly N * sizeof(T) bytes.
C9_SizeLaw ==
    Resolved =>
        /\ lay.node.count = lay.n
        /\ lay.node.size = lay.n * lay.esize

C9_Witness ==
    /\ Resolved
    /\ lay.n = 63 /\ lay.esize = 8
    /\ lay.node.size = 504

\* C10: in no reachable state do two live owners (arrays, iterators,
\* elements held by the caller) own the same element.  An owner owns what
\* its destructor will destruct.
OwnersOf(e) ==
    Cardinality({i \in 1 .. Len(held) : heldLive /\ held[i].elem = e})
        + (IF array.live /\ e \in Range(GlueDrops(array.cells)) THEN 1 ELSE 0)
        + (IF iter.st = "live"
              /\ e \in Range(TeardownDrops(iter.block, iter.pos, IterLen))
           THEN 1 ELSE 0)

C10_SingleOwner == \A e \in 1 .. MaxLen : OwnersOf(e) <= 1

\* C11: after any sequence of split_first / split_last calls on an array of
\* length N, once every returned element and the last returned array have
\* been dropped, each of the N original elements has been destructed exactly
\* once and nothing else has been destructed.
OnlySplits == \A i \in 1 .. Len(held) : held[i].by \in {"split_first", "split_last"}

C11_SplitDropsOnce ==
    (~array.live /\ iter.st = "none" /\ ~heldLive /\ OnlySplits) =>
        /\ \A e \in 1 .. len0 : TotalDrops(e) = 1
        /\ \A e \in 0 .. MaxLen : e \notin 1 .. len0 => TotalDrops(e) = 0

\* what the first teardown of the iterator destructs
FirstTeardown ==
    Destructed(NoDrops["iter"], TeardownDrops(iterSrc, iter.pos, IterLen))

\* C12: once the iterator's block has been taken for teardown the tag is
\* Dead, and a second teardown of the same iterator destructs no element
\* and reaches no undefined state.
C12_SecondTeardown ==
    /\ Len(iter.taken) >= 1 => iter.tag = "Dead"
    /\ Len(iter.taken) >= 2 =>
          /\ iter.st # "undefined"
          /\ drops["iter"] = FirstTeardown

\* C13: array[i] on an array of length N succeeds exactly for i in [0, N)
\* and gives the element at that position; for i >= N it panics and touches
\* no cell; the length of the slice view is exactly N.
C13_IndexBounds ==
    probe.called =>
        LET n == Len(array.cells)
        IN  /\ array.live
            /\ probe.len = n
            /\ probe.i < n => probe.res = Some(array.cells[probe.i + 1]) /\ probe.read = {probe.i}
            /\ probe.i >= n => probe.res = Panic /\ probe.read = {}

C13_Witness ==
    /\ probe.called /\ probe.i = 9 /\ probe.res = Panic
    /\ array.cells = <<1, 2, 3, 4, 5, 6, 7, 8, 9>>

\* C14: every split_first / split_last gives an array exactly one shorter
\* than the one it was given, so an array of length N admits at most N
\* splits in succession; a split is available as long as the length is not
\* 0, and none is on an array of length 0.
\* some impl of ArraySplit matches the array's type
Splittable == Shape(0) \/ Shape(1) \/ Shape(2)

C14_SplitChain ==
    array.live =>
        /\ call.op # "none" => ArrayLen(array.L) = N0 - 1
        /\ ArrayLen(array.L) = len0 - Len(held)
        /\ Len(array.cells) = ArrayLen(array.L)
        /\ Len(held) <= len0
        /\ (ArrayLen(array.L) = 0) <=> ~Splittable

C14_Witness ==
    /\ array.live /\ len0 = 9 /\ Len(held) = 9
    /\ ArrayLen(array.L) = 0
    /\ \E i, j \in 1 .. 9 : held[i].by = "split_first" /\ held[j].by = "split_last"

\* C15: into_iter on an array holding [v0, .., v(N-1)] gives an iterator
\* whose block holds the same N elements in the same order, with pos = 0
\* and tag Alive, and the source array owns no element afterwards.
FreshIter == iter.st = "live" /\ rets = <<>>

C15_IntoIterMoves ==
    FreshIter =>
        /\ iter.block = iterSrc
        /\ Len(iter.block) = IterLen
        /\ held = <<>> => iter.block = [i \in 1 .. len0 |-> i]
        /\ iter.pos = 0
        /\ GuillotineOf(iter.tag, iter.block) = Alive(iterSrc)
        /\ ~array.live /\ array.cells = <<>>

C15_Witness ==
    /\ FreshIter /\ IterLen = 9 /\ held = <<>>
    /\ iter.block = <<1, 2, 3, 4, 5, 6, 7, 8, 9>>

(***************************************************************************)
(* Construction: the array! macro and from_sized_iter.  Both start from    *)
(* an uninitialized Array<L, T> and ptr::write the values into its slots   *)
(* through the bounds-checked slice view.                                  *)
(***************************************************************************)
MaxBuild == 4       \* longest array built
Vals == {1, 2}      \* the values given to a construction

Term == <<>>

\* a successor that is its argument
SuccSame(L) == L

\* tll::ternary::Succ<L>
RECURSIVE Succ(_)
Succ(L) ==
    IF L = <<>> THEN <<1>>
    ELSE IF Head(L) = 2 THEN <<0>> \o Succ(Tail(L))
    ELSE <<Head(L) + 1>> \o Tail(L)

\* array!(@count x, xs..) = Succ<array!(@count xs..)>; array!(@count) = Term
RECURSIVE Count(_)
Count(xs) == IF xs = <<>> THEN Term ELSE Succ(Count(Tail(xs)))

\* mem::uninitialized::<Array<L, T>>(): no slot is read before it is written
Uninitialized(L) == [i \in 1 .. ArrayLen(L) |-> Junk]

\* a write that stores nothing
PtrWriteLost(data, i, v) == data

\* ptr::write(&mut data[i], v), the old contents are not dropped
PtrWrite(data, i, v) == [data EXCEPT ![i + 1] = v]

\* &mut data[i] goes through deref_mut and the slice's bounds check
Store(b, i, v) ==
    IF i < ArrayLen(b.L)
    THEN [b EXCEPT !.data = PtrWrite(@, i, v), !.writes[i + 1] = @ + 1, !.n = b.n + 1]
    ELSE [b EXCEPT !.st = "panicked"]

Building(by) == build.st = "writing" /\ build.by = by

NewBuild(by, L, src) ==
    [st |-> "writing", by |-> by, L |-> L, src |-> src, n |-> 0,
     writes |-> [i \in 1 .. ArrayLen(L) |-> 0], data |-> Uninitialized(L)]

BuildFrame ==
    UNCHANGED <<len0, held, heldLive, iter, iterSrc, rets, hint, call, drops, lay, probe>>

\* array![x0, .., x(k-1)]: the type is counted from the expressions
ArrayMacro ==
    /\ build.st = "idle"
    /\ \E k \in 0 .. MaxBuild : \E xs \in [1 .. k -> Vals] :
          build' = NewBuild("array!", Count(xs), xs)
    /\ UNCHANGED array
    /\ BuildFrame

\* (@assign data n => x, xs..): write x at n, go on with n + 1 and xs
MacroAssign ==
    /\ Building("array!")
    /\ build.n < Len(build.src)
    /\ build' = Store(build, build.n, build.src[build.n + 1])
    /\ UNCHANGED array
    /\ BuildFrame

\* (@assign data n =>): nothing is left, the block evaluates to data
MacroReturn ==
    /\ Building("array!")
    /\ build.n = Len(build.src)
    /\ array' = [live |-> TRUE, L |-> build.L, cells |-> build.data]
    /\ build' = [build EXCEPT !.st = "done"]
    /\ BuildFrame

\* from_sized_iter::<I: SizedIterator<L>>(iter).  SizedIterator is a safe
\* marker trait, so the iterator may yield fewer or more than L items.
FromSizedIter ==
    /\ build.st = "idle"
    /\ \E l \in 0 .. MaxBuild : \E m \in Max(0, l - 1) .. l + 1 :
          \E src \in [1 .. m -> Vals] :
             build' = NewBuild("from_sized_iter", Ternary(l), src)
    /\ UNCHANGED array
    /\ BuildFrame

\* for (i, v) in iter.into_iter().enumerate() { ptr::write(&mut array[i], v) }
CollectWrite ==
    /\ Building("from_sized_iter")
    /\ build.n < Len(build.src)
    /\ build' = Store(build, build.n, build.src[build.n + 1])
    /\ UNCHANGED array
    /\ BuildFrame

\* the iterator is exhausted: array is returned
CollectReturn ==
    /\ Building("from_sized_iter")
    /\ build.n = Len(build.src)
    /\ array' = [live |-> TRUE, L |-> build.L, cells |-> build.data]
    /\ build' = [build EXCEPT !.st = "done"]
    /\ BuildFrame

BuildInit ==
    /\ len0 = 0
    /\ array = NoArray
    /\ held = <<>>
    /\ heldLive = TRUE
    /\ iter = NoIter
    /\ iterSrc = <<>>
    /\ rets = <<>>
    /\ hint = NoHint
    /\ call = NoCall
    /\ drops = NoDrops
    /\ lay = LayIdle
    /\ probe = NoProbe
    /\ build = NoBuild

BuildNext ==
    \/ ArrayMacro \/ MacroAssign \/ MacroReturn
    \/ FromSizedIter \/ CollectWrite \/ CollectReturn

BuildSpec == BuildInit /\ [][BuildNext]_vars

Built(by) == build.st = "done" /\ build.by = by

\* the returned array holds src, every slot written once
ReturnedWhole ==
    /\ array.live
    /\ ArrayLen(array.L) = Len(build.src)
    /\ Len(array.cells) = Len(build.src)
    /\ \A i \in 1 .. Len(build.src) : array.cells[i] = build.src[i]
    /\ \A i \in 1 .. Len(build.writes) : build.writes[i] = 1

\* the slots below n are written once, the others not at all
WrittenOnceBelowN ==
    /\ Len(build.writes) = ArrayLen(build.L)
    /\ DOMAIN build.data = 1 .. ArrayLen(build.L)
    /\ \A i \in 1 .. Len(build.writes) :
          build.writes[i] = IF i <= build.n THEN 1 ELSE 0

\* C16: array![x0, .., x(k-1)] gives an array whose length is exactly k and
\* whose index i holds xi for every i in [0, k), each slot written exactly
\* once before the array is returned.
C16_ArrayMacro ==
    build.by = "array!" =>
        /\ build.st # "panicked"
        /\ ArrayLen(build.L) = Len(build.src)
        /\ WrittenOnceBelowN
        /\ build.st = "done" => ReturnedWhole

C16_Witness ==
    /\ Built("array!")
    /\ array.cells = <<2, 1, 1, 2>>
    /\ array.L = <<1, 1>>

\* C17: from_sized_iter on a sequence yielding exactly L elements
\* e0, .., e(L-1) returns an array of length L whose index i holds ei, with
\* every slot in [0, L) written exactly once before the array is returned
\* and no write outside [0, L).
C17_FromSizedIter ==
    build.by = "from_sized_iter" =>
        /\ WrittenOnceBelowN
        /\ build.n <= ArrayLen(build.L)
        /\ build.st = "panicked" => Len(build.src) > ArrayLen(build.L)
        /\ Len(build.src) = ArrayLen(build.L) =>
              /\ build.st # "panicked"
              /\ build.st = "done" => ReturnedWhole

C17_Witness ==
    /\ Built("from_sized_iter")
    /\ Len(build.src) = ArrayLen(build.L)
    /\ array.cells = <<1, 2, 2, 2>>
    /\ array.L = <<1, 1>>

\* C18: a Length with no resolvable digit sequence is rejected when the
\* program is built; resolution never yields a layout for it, of the wrong
\* size or of zero size, that a running program could use.
C18_Rejected ==
    ~lay.nat =>
        /\ ~Resolved
        /\ lay.st \in {"start", "digits", "rejected"}
        /\ lay.st = "digits" => lay.todo # <<>> /\ Other \in Range(lay.todo)
        /\ lay.st = "rejected" /\ lay.specialization => TooLarge(lay.node)

C18_Witness ==
    /\ ~lay.nat /\ lay.st = "rejected"
    /\ lay.specialization
    /\ lay.n = 8 /\ lay.todo = <<2, 2>>

\* C19: in every reachable state of an ArrayIter 0 <= pos <= length; a
\* next() with pos < length returns the element at index pos and increases
\* pos by exactly 1, and a next() with pos = length returns None and leaves
\* pos and the block unchanged.
Yielded == Cardinality({i \in 1 .. Len(rets) : rets[i] # None})

C19_Cursor ==
    iter.st # "none" =>
        /\ iter.pos \in 0 .. IterLen
        /\ iter.pos = Yielded
        /\ Len(rets) = Yielded + Ended
        /\ \A i \in 1 .. Len(rets) :
              rets[i] = IF i <= Yielded THEN Some(iterSrc[i]) ELSE None
        /\ Ended > 0 => iter.pos = IterLen
        /\ iter.block = iterSrc

C19_Witness ==
    /\ iter.st = "live" /\ IterLen = 9
    /\ iter.pos = 9 /\ Ended = 2 /\ Len(rets) = 11
    /\ rets[9] = Some(9) /\ rets[10] = None /\ rets[11] = None

\* C20: Guillotine::take returns what the tag held before the call and
\* leaves the tag Dead: the first take on an Alive(x) returns Alive(x), every
\* later take returns Dead, so the value is handed out at most once; as_ref
\* never changes the tag.
HandedOut == {i \in 1 .. Len(iter.taken) : iter.taken[i] # Dead}

C20_TakeOnce ==
    iter.st # "none" =>
        /\ \A i \in 1 .. Len(iter.taken) :
              iter.taken[i] = IF i = 1 THEN Alive(iterSrc) ELSE Dead
        /\ Cardinality(HandedOut) <= 1
        /\ iter.taken # <<>> => GuillotineOf(iter.tag, iter.block) = Dead
        /\ iter.taken = <<>> => GuillotineOf(iter.tag, iter.block) = Alive(iterSrc)

C20_Witness ==
    /\ Len(iter.taken) = 2 /\ IterLen = 9
    /\ Yielded = 4 /\ Ended = 0
    /\ iter.taken[1] = Alive(<<1, 2, 3, 4, 5, 6, 7, 8, 9>>)
    /\ iter.taken[2] = Dead

\* C21: every read of split_first and split_last on an array of length
\* N >= 1 (the one element and the N-1 element sub-array) falls within the
\* source array's own cells [0, N), whatever the leading digit.
OwnCells == 0 .. N0 - 1

C21_ReadsInBounds ==
    /\ AfterSplit("split_first") => SplitFirstReads(call.L, array.L) \subseteq OwnCells
    /\ AfterSplit("split_last") => SplitLastReads(call.L, array.L) \subseteq OwnCells

\* C22: from into_iter until the iterator's teardown begins the tag is
\* Alive after any sequence of next() calls, so unwrap_unchecked() in next()
\* never reaches its Dead branch; the tag becomes Dead only in teardown.
InTeardown == iter.taken # <<>>

C22_AliveUntilTeardown ==
    /\ iter.st = "live" =>
          /\ ~InTeardown
          /\ AsRef(iter.tag).ret = "Alive"
          /\ GuillotineOf(AsRef(iter.tag).self, iter.block) = Alive(iterSrc)
    /\ (iter.st # "none" /\ iter.tag = "Dead") =>
          /\ InTeardown
          /\ iter.st \in {"dropped", "undefined"}

C22_Witness ==
    /\ iter.st = "live" /\ iter.tag = "Alive"
    /\ IterLen = 9 /\ Yielded = 9 /\ Ended = 1
    /\ ~InTeardown

\* C23: for an array of length N >= 2, split_first then split_last on the
\* remainder, and split_last then split_first on the remainder, give the
\* same result: head v0, last v(N-1), and an array of length N-2 holding
\* [v1, .., v(N-2)] in order.
HeldBy(op) == {i \in 1 .. Len(held) : held[i].by = op}
BothEnds ==
    /\ array.live /\ len0 >= 2 /\ Len(held) = 2
    /\ Cardinality(HeldBy("split_first")) = 1
    /\ Cardinality(HeldBy("split_last")) = 1

C23_SplitsCommute ==
    BothEnds =>
        /\ \A i \in HeldBy("split_first") : held[i].elem = 1
        /\ \A i \in HeldBy("split_last") : held[i].elem = len0
        /\ ArrayLen(array.L) = len0 - 2
        /\ array.cells = [i \in 1 .. len0 - 2 |-> i + 1]

====
